---- MODULE Spec2Model ----
(***************************************************************************)
(* Attachment ingestion pipeline of EmailFileBackup-Cron.                  *)
(*                                                                         *)
(*   src/database.py       acquire_lock, release_lock, cleanup_stale_locks,*)
(*                         log_upload (rows of app_locks and upload_logs)  *)
(*   src/mail_processor.py upload_to_webdav, _process_single_message,      *)
(*                         process_emails, decode_email_header,            *)
(*                         sanitize_filename, find_unique_filename         *)
(*   src/app.py            start-up sweep, the worker endpoint             *)
(*                                                                         *)
(* A run is one call of process_emails.  Runs of several processes         *)
(* interleave at their I/O statements: every statement that talks to the   *)
(* database, the mailbox or the remote store is a step of its own.         *)
(*                                                                         *)
(* Spec, SpecLegacy and SpecOutage follow the runs, a message being one    *)
(* step of the loop.  SpecMessage follows one call of                      *)
(* _process_single_message statement by statement, SpecResolver one call   *)
(* of find_unique_filename, SpecDecoder the decoding and sanitizing of one *)
(* header.                                                                 *)
(***************************************************************************)
EXTENDS Integers, Sequences, FiniteSets, TLC

\* ------------------------------------------------------------ bounds
NumRuns == 2          \* calls of process_emails
NumMsgs == 2          \* matching unread messages in the mailbox at the start
MaxAtt == 2           \* attachments in the mailbox
MaxTicks == 2         \* clock steps
MaxBatchLimit == 2    \* largest MAX_EMAILS_PER_RUN tried
MaxPlainLen == 4      \* length of a header without encoding
MaxEncodedLen == 2    \* characters and %XX escapes of an RFC 2231 value
MaxWordLen == 5       \* length of the text of an RFC 2047 encoded word
MaxNameLen == 3       \* length of a name given to find_unique_filename
MaxTaken == 2         \* candidates of find_unique_filename that can be taken
MaxProbes == MaxTaken + 2   \* candidates of one find_unique_filename followed

\* ------------------------------------------------- program constants
timeout_minutes == 30              \* acquire_lock(lock_name, timeout_minutes=30)
MAX_ATTACHMENT_SIZE_MB == 50       \* MAX_ATTACHMENT_SIZE, in MB
UPLOAD_RETRY_COUNT == 3            \* config['upload']['retry_count']

Runs == 1..NumRuns
Msgs == 1..NumMsgs
AttIdx == 1..MaxAtt
NULL == -1                         \* SQL NULL of locked_at
NoRun == 0                         \* nobody holds the InnoDB row lock

\* The clock advances in steps of the lock timeout, so a lock is seen at an
\* age below, equal to and above the timeout.
ClockStep == timeout_minutes

\* An attachment is its size in MB: at the ceiling, or one above it.
AttachmentSizes == {MAX_ATTACHMENT_SIZE_MB, MAX_ATTACHMENT_SIZE_MB + 1}

RECURSIVE SeqsUpTo(_, _)
SeqsUpTo(S, n) ==
    IF n = 0 THEN {<< >>}
    ELSE LET shorter == SeqsUpTo(S, n - 1)
         IN  shorter \cup {Append(s, x) : s \in {t \in shorter : Len(t) = n - 1}, x \in S}

AttachmentLists == SeqsUpTo(AttachmentSizes, MaxAtt)

RECURSIVE TotalLen(_, _)
\* The attachments of messages 1..n together.
TotalLen(f, n) == IF n = 0 THEN 0 ELSE Len(f[n]) + TotalLen(f, n - 1)

Min(a, b) == IF a <= b THEN a ELSE b

RECURSIVE SortedSeq(_)
\* The uids of a set of messages in ascending order (the order of an IMAP search).
SortedSeq(S) ==
    IF S = {} THEN << >>
    ELSE LET m == CHOOSE x \in S : \A y \in S : x <= y
         IN  <<m>> \o SortedSeq(S \ {m})

\* ------------------------------------------------------------ text
\* A Python str is the sequence of its code points.

\* ord() of the characters the model writes.
Ord ==
    [c \in {"a", "b", ".", " ", "(", ")", "_", "'", "%", "=", "-",
            "<", ">", ":", "\"", "/", "\\", "|", "?", "*",
            "0", "1", "2", "3", "4", "5", "6", "7", "8", "9",
            "A", "B", "C", "D", "E", "F", "Q",
            "c", "e", "f", "h", "i", "k", "l", "m", "n", "o", "s", "t", "u", "w"} |->
        CASE c = "a" -> 97 [] c = "b" -> 98 [] c = "." -> 46 [] c = " " -> 32
          [] c = "(" -> 40 [] c = ")" -> 41 [] c = "_" -> 95 [] c = "'" -> 39
          [] c = "%" -> 37 [] c = "=" -> 61 [] c = "-" -> 45
          [] c = "<" -> 60 [] c = ">" -> 62 [] c = ":" -> 58 [] c = "\"" -> 34
          [] c = "/" -> 47 [] c = "\\" -> 92 [] c = "|" -> 124 [] c = "?" -> 63
          [] c = "*" -> 42
          [] c = "0" -> 48 [] c = "1" -> 49 [] c = "2" -> 50 [] c = "3" -> 51
          [] c = "4" -> 52 [] c = "5" -> 53 [] c = "6" -> 54 [] c = "7" -> 55
          [] c = "8" -> 56 [] c = "9" -> 57
          [] c = "A" -> 65 [] c = "B" -> 66 [] c = "C" -> 67 [] c = "D" -> 68
          [] c = "E" -> 69 [] c = "F" -> 70 [] c = "Q" -> 81
          [] c = "c" -> 99 [] c = "e" -> 101 [] c = "f" -> 102 [] c = "h" -> 104
          [] c = "i" -> 105 [] c = "s" -> 115
          [] c = "k" -> 107 [] c = "l" -> 108 [] c = "m" -> 109 [] c = "n" -> 110
          [] c = "o" -> 111 [] c = "t" -> 116 [] c = "u" -> 117 [] c = "w" -> 119]

\* The str spelled by a sequence of characters: S(<<"a", ".", "b">>) is 'a.b'.
S(chars) == [i \in 1..Len(chars) |-> Ord[chars[i]]]

\* The strs of length up to n over the characters given.
Strs(chars, n) == SeqsUpTo({Ord[c] : c \in chars}, n)

\* s[i:] with i counted from 1.
From(s, i) == SubSeq(s, i, Len(s))

\* sub in s: str.__contains__.
Contains(s, sub) ==
    \E i \in 1..(Len(s) - Len(sub) + 1) : SubSeq(s, i, i + Len(sub) - 1) = sub

\* s.startswith(sub)
StartsWith(s, sub) == Len(sub) <= Len(s) /\ SubSeq(s, 1, Len(sub)) = sub

RECURSIVE Replace(_, _, _)
\* s.replace(old, new): the occurrences of old found from the left, without
\* overlap, each replaced by new.
Replace(s, old, new) ==
    IF s = << >> THEN << >>
    ELSE IF StartsWith(s, old) THEN new \o Replace(From(s, Len(old) + 1), old, new)
    ELSE <<Head(s)>> \o Replace(Tail(s), old, new)

\* The character class of sanitize_filename: [<>:"/\\|?*]
IllegalChars == {Ord[c] : c \in {"<", ">", ":", "\"", "/", "\\", "|", "?", "*"}}

\* re.sub(r'[<>:"/\\|?*]', '_', s)
SubIllegal(s) == [i \in 1..Len(s) |-> IF s[i] \in IllegalChars THEN Ord["_"] ELSE s[i]]

\* sanitize_filename with the two dots removed once only, at their first place.
SanitizeFirstDotsOnly(filename) ==
    LET dots == S(<<".", ".">>)
        first == CHOOSE i \in 1..(Len(filename) + 1) :
                     /\ i <= Len(filename) => StartsWith(From(filename, i), dots)
                     /\ \A j \in 1..(i - 1) : ~StartsWith(From(filename, j), dots)
    IN  SubIllegal(IF first > Len(filename) THEN filename
                   ELSE SubSeq(filename, 1, first - 1) \o From(filename, first + 2))

\* sanitize_filename: filename.replace('..', '') and then the re.sub.
sanitize_filename(filename) == SubIllegal(Replace(filename, S(<<".", ".">>), << >>))

\* string.hexdigits, as code points: 0-9, A-F, a-f.
IsHex(c) == c \in (48..57) \cup (65..70) \cup (97..102)

\* int(c, 16)
HexVal(c) == IF c \in 48..57 THEN c - 48 ELSE IF c \in 65..70 THEN c - 55 ELSE c - 87

RECURSIVE unquote_to_bytes(_)
\* urllib.parse.unquote_to_bytes on an ASCII str: %XX with two hex digits is
\* the byte XX, every other character is its own byte.
unquote_to_bytes(s) ==
    IF s = << >> THEN << >>
    ELSE IF s[1] = Ord["%"] /\ Len(s) >= 3 /\ IsHex(s[2]) /\ IsHex(s[3])
    THEN <<16 * HexVal(s[2]) + HexVal(s[3])>> \o unquote_to_bytes(From(s, 4))
    ELSE <<s[1]>> \o unquote_to_bytes(Tail(s))

\* U+FFFD, what errors='replace' puts for bytes that are not UTF-8.
ReplacementChar == 65533

\* bytes.decode('latin-1'): every byte is its code point.
Latin1(bytes) == bytes

RECURSIVE Utf8Replace(_)
\* bytes.decode('utf-8', errors='replace'): a well-formed sequence of one to
\* four bytes is its code point; a byte that starts none, or the longest
\* well-formed start of a sequence that is cut short, is one U+FFFD.
Utf8Replace(bytes) ==
    IF bytes = << >> THEN << >>
    ELSE
    LET n == Len(bytes)
        b1 == bytes[1]
        lo2 == IF b1 = 224 THEN 160 ELSE IF b1 = 240 THEN 144 ELSE 128
        hi2 == IF b1 = 237 THEN 159 ELSE IF b1 = 244 THEN 143 ELSE 191
        second == n >= 2 /\ bytes[2] \in lo2..hi2
        cont(i) == n >= i /\ bytes[i] \in 128..191
        rest(k) == Utf8Replace(From(bytes, k + 1))
        bad(k) == <<ReplacementChar>> \o rest(k)
    IN  IF b1 < 128 THEN <<b1>> \o rest(1)
        ELSE IF b1 \in 194..223
        THEN IF cont(2)
             THEN <<(b1 - 192) * 64 + (bytes[2] - 128)>> \o rest(2)
             ELSE bad(1)
        ELSE IF b1 \in 224..239
        THEN IF ~second THEN bad(1)
             ELSE IF ~cont(3) THEN bad(2)
             ELSE <<(b1 - 224) * 4096 + (bytes[2] - 128) * 64 + (bytes[3] - 128)>>
                  \o rest(3)
        ELSE IF b1 \in 240..244
        THEN IF ~second THEN bad(1)
             ELSE IF ~cont(3) THEN bad(2)
             ELSE IF ~cont(4) THEN bad(3)
             ELSE <<(b1 - 240) * 262144 + (bytes[2] - 128) * 4096
                    + (bytes[3] - 128) * 64 + (bytes[4] - 128)>> \o rest(4)
        ELSE bad(1)

RECURSIVE AsciiRun(_)
\* The length of the longest start of s made of ASCII characters.
AsciiRun(s) == IF s = << >> \/ s[1] >= 128 THEN 0 ELSE 1 + AsciiRun(Tail(s))

RECURSIVE UnquoteRuns(_)
\* unquote, the loop over _asciire.split(string): each run of ASCII characters
\* is unquoted to bytes and decoded, the characters between the runs are kept.
UnquoteRuns(s) ==
    IF s = << >> THEN << >>
    ELSE LET k == AsciiRun(s)
         IN  IF k = 0 THEN <<s[1]>> \o UnquoteRuns(Tail(s))
             ELSE Utf8Replace(unquote_to_bytes(SubSeq(s, 1, k)))
                  \o UnquoteRuns(From(s, k + 1))

\* urllib.parse.unquote(string): encoding='utf-8', errors='replace'.
unquote(s) == IF ~Contains(s, S(<<"%">>)) THEN s ELSE UnquoteRuns(s)

RECURSIVE SplitLast(_, _, _)
\* s.split(sep)[-1]: what follows the last separator found from the left.
SplitLast(s, sep, last) ==
    IF s = << >> THEN last
    ELSE IF StartsWith(s, sep) THEN SplitLast(From(s, Len(sep) + 1), sep, << >>)
    ELSE SplitLast(Tail(s), sep, Append(last, s[1]))

\* decode_email_header: str(header), which raises TypeError for a value that
\* has no str; the text after the last '' when there is one; unquote.
decode_email_header(header) ==
    IF ~header.printable THEN [raised |-> TRUE, value |-> << >>]
    ELSE LET separator == S(<<"'", "'">>)
             filename_str == IF Contains(header.text, separator)
                             THEN SplitLast(header.text, separator, << >>)
                             ELSE header.text
         IN  [raised |-> FALSE, value |-> unquote(filename_str)]

\* A header that str() turns into text.
Text(s) == [printable |-> TRUE, text |-> s]

\* A header whose str() raises.
Unprintable == [printable |-> FALSE, text |-> << >>]

VARIABLES
    now,              \* the clock, in minutes
    dbUp,             \* get_db_connection() returns a connection
    app_locks,        \* the row of process_emails_lock: [exists, is_locked, locked_at]
    rowLock,          \* the run whose transaction holds the row's lock (FOR UPDATE)
    upload_logs,      \* table upload_logs: run -> the rows it inserted, in insertion order
    mailbox,          \* the unread messages that match the subject filter
    attachments,      \* message -> its attachments (sizes), in order
    maxEmailsPerRun,  \* MAX_EMAILS_PER_RUN
    pc,               \* run -> the statement it is at
    result,           \* run -> the row its SELECT ... FOR UPDATE read
    unread_messages,  \* run -> the uids its search returned
    idx,              \* run -> position of the for loop in unread_messages
    processed_count,  \* run -> messages processed and deleted
    exit,             \* run -> how the run left process_emails
    \* history, read by the properties only
    grants,           \* acquire_lock calls that returned True since the row was last unlocked
    raced,            \* runs inside acquire_lock while another call returned True
    how,              \* run -> how its acquire_lock got the lock, until its
                      \* release_lock, or why it did not get it
    attOutcome,       \* run, message, attachment -> what happened to it ("none": not reached)
    failedIn,         \* run -> messages whose processing returned False in it
    deletedBy,        \* run -> messages it deleted
    putAttempts,      \* run, message, attachment -> PUT requests sent
    putOk,            \* run, message, attachment -> PUT requests answered 2xx
    \* one call of _process_single_message, statement by statement
    webdav,           \* the names of the files on the WebDAV server
    head,             \* how the server answers HEAD requests
    message,          \* message.attachments: [filename, size] each
    index,            \* position of the for loop in the attachments, from 1
    at,               \* the statement the call is at
    original_filename,   \* local: the decoded header
    safe_filename,    \* local: the sanitized name
    new_filename,     \* local of find_unique_filename: the name being probed
    counter,          \* local of find_unique_filename
    all_attachments_succeeded,   \* local: the return value
    calls             \* history: [att, call, name] of each decode, HEAD and PUT

dbVars == <<now, dbUp, app_locks, rowLock, upload_logs>>
mailVars == <<mailbox, attachments, maxEmailsPerRun>>
runVars == <<pc, result, unread_messages, idx, processed_count, exit>>
lockHist == <<grants, raced, how>>
mailHist == <<failedIn, deletedBy, attOutcome, putAttempts, putOk>>
histVars == <<lockHist, mailHist>>
msgVars == <<webdav, head, message, index, at, original_filename, safe_filename,
             new_filename, counter, all_attachments_succeeded, calls>>
vars == <<dbVars, mailVars, runVars, histVars, msgVars>>

Unlocked == [exists |-> TRUE, is_locked |-> FALSE, locked_at |-> NULL]
NoRow == [exists |-> FALSE, is_locked |-> FALSE, locked_at |-> NULL]


\* No call of _process_single_message is followed statement by statement.
NoCall ==
    /\ webdav = {}
    /\ head = "accurate"
    /\ message = << >>
    /\ index = 0
    /\ at = "idle"
    /\ original_filename = << >>
    /\ safe_filename = << >>
    /\ new_filename = << >>
    /\ counter = 0
    /\ all_attachments_succeeded = TRUE
    /\ calls = << >>

\* The state after construction, with the lock's row as given: the clock at
\* zero, a mailbox holding the first n messages with at most MaxAtt attachments
\* between them, every run about to be called.
InitFrom(row) ==
    /\ now = 0
    /\ dbUp = TRUE
    /\ app_locks = row
    /\ rowLock = NoRun
    /\ upload_logs = [r \in Runs |-> << >>]
    /\ \E n \in 0..NumMsgs :
          /\ mailbox = 1..n
          /\ attachments \in {f \in [Msgs -> AttachmentLists] :
                                /\ \A m \in Msgs : m > n => f[m] = << >>
                                /\ TotalLen(f, NumMsgs) <= MaxAtt}
    /\ maxEmailsPerRun \in 1..MaxBatchLimit
    /\ pc = [r \in Runs |-> "acquire_lock"]
    /\ result = [r \in Runs |-> NoRow]
    /\ unread_messages = [r \in Runs |-> << >>]
    /\ idx = [r \in Runs |-> 0]
    /\ processed_count = [r \in Runs |-> 0]
    /\ exit = [r \in Runs |-> "running"]
    /\ grants = 0
    /\ raced = {}
    /\ how = [r \in Runs |-> "no"]
    /\ attOutcome = [r \in Runs |-> [m \in Msgs |-> [a \in AttIdx |-> "none"]]]
    /\ failedIn = [r \in Runs |-> {}]
    /\ deletedBy = [r \in Runs |-> {}]
    /\ putAttempts = [r \in Runs |-> [m \in Msgs |-> [a \in AttIdx |-> 0]]]
    /\ putOk = [r \in Runs |-> [m \in Msgs |-> [a \in AttIdx |-> 0]]]
    /\ NoCall

Init == InitFrom(NoRow)

\* ------------------------------------------------------------ database.py

\* A SELECT without FOR UPDATE: it waits for nobody.
RowLockIgnored(r) == TRUE

\* SELECT ... FOR UPDATE waits until no other transaction holds the row's lock.
RowLockFree(r) == rowLock = NoRun

\* The age of the lock compared with >= for >.
TimedOutAtTimeout(locked_at, t) == t - locked_at >= timeout_minutes

\* time_diff.total_seconds() > timeout_minutes * 60
TimedOut(locked_at, t) == t - locked_at > timeout_minutes

\* A lock without a timestamp taken for a live one.
StillLockedWithoutTimestamp(row, t) ==
    /\ row.is_locked
    /\ row.locked_at = NULL \/ ~TimedOut(row.locked_at, t)

\* acquire_lock: the value of is_locked after the forced releases of a lock that
\* timed out or carries no timestamp.
StillLocked(row, t) ==
    /\ row.is_locked
    /\ row.locked_at # NULL
    /\ ~TimedOut(row.locked_at, t)

\* The row of a lock taken with the flag alone, the timestamp left as it was
\* after a release.
LockedRowWithoutTimestamp(t) == [exists |-> TRUE, is_locked |-> TRUE, locked_at |-> NULL]

\* UPDATE app_locks SET is_locked = TRUE, locked_at = CURRENT_TIMESTAMP
LockedRow(t) == [exists |-> TRUE, is_locked |-> TRUE, locked_at |-> t]

\* UPDATE app_locks SET is_locked = FALSE, locked_at = NULL (no row: no effect)
UnlockedRow(row) == IF row.exists THEN Unlocked ELSE row

\* A run that goes on to the mailbox without the lock.
NotAcquiredIgnored == "scan"

\* The test of acquire_lock inside the try block: a refused run passes
\* through the finally clause.
NotAcquiredReleases == "release_lock"

\* if not acquire_lock(LOCK_NAME): return, before the try block.
NotAcquired == "done"

\* acquire_lock, first statement: conn = get_db_connection(); no connection
\* returns False, and process_emails returns at once.
AcquireConnect(r) ==
    /\ pc[r] = "acquire_lock"
    /\ IF dbUp
       THEN /\ pc' = [pc EXCEPT ![r] = "acquire_select"]
            /\ exit' = exit
            /\ how' = how
       ELSE /\ pc' = [pc EXCEPT ![r] = NotAcquired]
            /\ exit' = [exit EXCEPT ![r] = "skipped"]
            /\ how' = [how EXCEPT ![r] = "unreachable"]
    /\ UNCHANGED <<dbVars, mailVars, mailHist, grants, raced>>
    /\ UNCHANGED <<result, unread_messages, idx, processed_count>>
    /\ UNCHANGED msgVars

\* acquire_lock: INSERT IGNORE, START TRANSACTION, SELECT ... FOR UPDATE.
AcquireSelect(r) ==
    /\ pc[r] = "acquire_select"
    /\ RowLockFree(r)
    /\ app_locks' = IF app_locks.exists THEN app_locks ELSE Unlocked
    /\ rowLock' = r
    /\ result' = [result EXCEPT ![r] = app_locks']
    /\ pc' = [pc EXCEPT ![r] = "acquire_decide"]
    /\ UNCHANGED <<now, dbUp, upload_logs, mailVars, histVars>>
    /\ UNCHANGED <<unread_messages, idx, processed_count, exit>>
    /\ UNCHANGED msgVars

\* acquire_lock: the decision on the row read, the UPDATE and the commit (True),
\* or the rollback (False).  The transaction ends, so the row's lock is dropped.
AcquireDecide(r) ==
    /\ pc[r] = "acquire_decide"
    /\ LET row == result[r]
           granted == row.exists /\ ~StillLocked(row, now)
       IN  /\ app_locks' = IF granted THEN LockedRow(now) ELSE app_locks
           /\ pc' = [pc EXCEPT ![r] = IF granted THEN "scan" ELSE NotAcquired]
           /\ exit' = [exit EXCEPT ![r] = IF granted THEN @ ELSE "skipped"]
           /\ grants' = IF ~granted THEN grants
                        ELSE IF row.is_locked THEN 1 ELSE grants + 1
           /\ raced' = IF granted
                       THEN (raced \ {r}) \cup {q \in Runs \ {r} :
                                          pc[q] \in {"acquire_select", "acquire_decide"}}
                       ELSE raced \ {r}
           /\ how' = [how EXCEPT ![r] =
                          IF ~granted
                          THEN IF now - row.locked_at = timeout_minutes
                               THEN "held_at_timeout" ELSE "held"
                          ELSE IF ~row.is_locked THEN "free"
                          ELSE IF row.locked_at = NULL THEN "no_timestamp"
                          ELSE "timed_out"]
    /\ rowLock' = IF rowLock = r THEN NoRun ELSE rowLock
    /\ result' = [result EXCEPT ![r] = NoRow]
    /\ UNCHANGED <<now, dbUp, upload_logs, mailVars>>
    /\ UNCHANGED <<unread_messages, idx, processed_count, mailHist>>
    /\ UNCHANGED msgVars

\* release_lock, called in the finally clause of process_emails.
ReleaseLock(r) ==
    /\ pc[r] = "release_lock"
    /\ IF dbUp
       THEN /\ rowLock = NoRun
            /\ app_locks' = UnlockedRow(app_locks)
            /\ grants' = IF app_locks.is_locked THEN 0 ELSE grants
       ELSE UNCHANGED <<app_locks, grants>>
    /\ pc' = [pc EXCEPT ![r] = "done"]
    /\ how' = [how EXCEPT ![r] = "no"]
    /\ UNCHANGED <<now, dbUp, rowLock, upload_logs, mailVars>>
    /\ UNCHANGED <<result, unread_messages, idx, processed_count, exit>>
    /\ UNCHANGED <<raced, mailHist>>
    /\ UNCHANGED msgVars

\* cleanup_stale_locks, run by every process start (app.py): UPDATE app_locks
\* SET is_locked = FALSE, locked_at = NULL WHERE is_locked = TRUE.
CleanupStaleLocks ==
    /\ dbUp
    /\ rowLock = NoRun
    /\ app_locks.is_locked
    /\ app_locks' = UnlockedRow(app_locks)
    /\ grants' = 0
    /\ UNCHANGED <<now, dbUp, rowLock, upload_logs, mailVars, runVars>>
    /\ UNCHANGED <<raced, how, mailHist>>
    /\ UNCHANGED msgVars

\* log_upload: one INSERT into upload_logs; without a connection it returns.
log_upload(rows, entry) == IF dbUp THEN Append(rows, entry) ELSE rows

\* The clock.  It is read only against locked_at of a held lock
\* (datetime.now() - locked_at), so time is let pass only while the lock is held.
Tick ==
    /\ now < MaxTicks * ClockStep
    /\ app_locks.is_locked
    /\ now' = now + ClockStep
    /\ UNCHANGED <<dbUp, app_locks, rowLock, upload_logs, mailVars, runVars, histVars>>
    /\ UNCHANGED msgVars

\* ------------------------------------------------------- mail_processor.py

\* A way out of the try block that skips the finally clause.
FinallySkipped == "done"

\* The finally clause of process_emails: every way out of the try block goes
\* through release_lock.
Finally == "release_lock"

\* The size check with >= for >.
OversizedAtCeiling(size) == size >= MAX_ATTACHMENT_SIZE_MB

\* if attachment_size > MAX_ATTACHMENT_SIZE: ... continue
Oversized(size) == size > MAX_ATTACHMENT_SIZE_MB

\* What can happen to one attachment: "error" is an exception raised while
\* decoding, resolving or sending it (the except clause of the loop);
\* "skipped" the size check; "uploaded" and "upload_failed" the two returns
\* of upload_to_webdav.
Outcomes(size) ==
    IF Oversized(size) THEN {"error", "skipped"}
    ELSE {"error", "uploaded", "upload_failed"}

\* The except clause forgetting all_attachments_succeeded = False.
FlagAfterErrorIgnored(flag, o) == IF o = "upload_failed" THEN FALSE ELSE flag

\* The failed upload forgetting all_attachments_succeeded = False.
FlagAfterFailureIgnored(flag, o) == IF o = "error" THEN FALSE ELSE flag

\* all_attachments_succeeded after an attachment that ended in o.
FlagAfter(flag, o) == IF o \in {"upload_failed", "error"} THEN FALSE ELSE flag

\* The loop over the attachments going on after a failed upload.
BreaksOnErrorOnly(o) == o = "error"

\* The loop over the attachments ending at an oversized attachment too.
BreaksAfterSkipped(o) == o \in {"upload_failed", "error", "skipped"}

\* break: a failed upload or an exception ends the loop over the attachments.
Breaks(o) == o \in {"upload_failed", "error"}

\* upload_to_webdav: the PUT requests sent for one attachment.
PutRequests(o) == IF o \in {"uploaded", "upload_failed"} THEN 1 ELSE 0

\* upload_to_webdav: the status it hands to log_upload.
LogStatus(o) == IF o = "uploaded" THEN "Success" ELSE "Failed"

\* upload_to_webdav without the log_upload call of its except clause.
LogAfterUploadSuccessOnly(rows, m, a, size, o) ==
    IF o = "uploaded"
    THEN Append(rows, [msg |-> m, att |-> a, size_bytes |-> size, status |-> "Success"])
    ELSE rows

\* upload_to_webdav: the rows it adds to upload_logs for attachment a of m.
LogAfterUpload(rows, m, a, size, o) ==
    IF o \in {"uploaded", "upload_failed"}
    THEN log_upload(rows, [msg |-> m, att |-> a, size_bytes |-> size,
                           status |-> LogStatus(o)])
    ELSE rows

\* The loop without the test of the batch limit.
BatchLimitNever(count) == FALSE

\* The batch limit tested with > for >=.
BatchLimitExceeded(count) == count > maxEmailsPerRun

\* if processed_count >= MAX_EMAILS_PER_RUN: break
BatchLimitReached(count) == count >= maxEmailsPerRun

\* process_emails, after the lock: load_config and validate_config, the IMAP
\* connection, the search for unread messages with the subject.
Scan(r) ==
    /\ pc[r] = "scan"
    /\ \E o \in {"ok", "invalid", "connerr"} :
          IF o = "ok"
          THEN /\ unread_messages' = [unread_messages EXCEPT ![r] = SortedSeq(mailbox)]
               /\ IF mailbox = {}
                  THEN /\ pc' = [pc EXCEPT ![r] = Finally]
                       /\ exit' = [exit EXCEPT ![r] = "empty"]
                       /\ idx' = idx
                  ELSE /\ pc' = [pc EXCEPT ![r] = "loop"]
                       /\ exit' = exit
                       /\ idx' = [idx EXCEPT ![r] = 1]
          ELSE /\ pc' = [pc EXCEPT ![r] = Finally]
               /\ exit' = [exit EXCEPT ![r] = o]
               /\ UNCHANGED <<unread_messages, idx>>
    /\ UNCHANGED <<dbVars, mailVars, histVars>>
    /\ UNCHANGED <<result, processed_count>>
    /\ UNCHANGED msgVars

\* The outcomes of the attachments of one message, one per attachment.
OutcomeVectors(sizes) ==
    {os \in [1..Len(sizes) -> {"error", "skipped", "uploaded", "upload_failed"}] :
        \A a \in 1..Len(sizes) : os[a] \in Outcomes(sizes[a])}

RECURSIVE LastTurn(_, _)
\* _process_single_message: the last attachment its loop reaches, from a on.
LastTurn(os, a) == IF a >= Len(os) \/ Breaks(os[a]) THEN a ELSE LastTurn(os, a + 1)

\* The attachments the loop reaches (none when the message has none).
Turns(os) == IF Len(os) = 0 THEN {} ELSE 1..LastTurn(os, 1)

RECURSIVE FlagUpTo(_, _)
\* all_attachments_succeeded after the first a turns.
FlagUpTo(os, a) == IF a = 0 THEN TRUE ELSE FlagAfter(FlagUpTo(os, a - 1), os[a])

\* _process_single_message taking a message without attachments for a failure.
ProcessFalseWithoutAttachments(os) ==
    IF Len(os) = 0 THEN FALSE ELSE FlagUpTo(os, LastTurn(os, 1))

\* _process_single_message returning True whatever happened to the attachments.
ProcessAlwaysTrue(os) == TRUE

\* _process_single_message: its return value (True at once without attachments).
process_single_message(os) ==
    IF Len(os) = 0 THEN TRUE ELSE FlagUpTo(os, LastTurn(os, 1))

RECURSIVE LogUpTo(_, _, _, _, _)
\* The rows of upload_logs after the first a turns on message m.
LogUpTo(rows, m, sizes, os, a) ==
    IF a = 0 THEN rows
    ELSE LogAfterUpload(LogUpTo(rows, m, sizes, os, a - 1), m, a, sizes[a], os[a])

\* A message that failed ending the run.
AfterMessageAbortOnFailure(ok) == IF ok THEN "loop" ELSE Finally

\* The run after _process_single_message returned, True or False: the for
\* loop takes the next message.
AfterMessage(ok) == "loop"

\* The message deleted whatever _process_single_message returned.
MailboxAfterAlwaysDeleted(box, m, ok) == box \ {m}

\* if _process_single_message(...): imbox.delete(uid); else the message is
\* left as it is (the fetch does not mark it as read).
MailboxAfter(box, m, ok) == IF ok THEN box \ {m} ELSE box

\* One turn of the for loop of process_emails: the iterator fetches the next
\* message (a uid that another run expunged cannot be fetched: the exception
\* ends the run), the batch limit is tested, _process_single_message handles
\* the attachments in order, and on True imbox.delete removes the message (a
\* connection lost there is an OSError that ends the run).
LoopTurn(r) ==
    /\ pc[r] = "loop"
    /\ IF idx[r] > Len(unread_messages[r])
       THEN /\ pc' = [pc EXCEPT ![r] = Finally]
            /\ exit' = [exit EXCEPT ![r] = "normal"]
            /\ UNCHANGED <<upload_logs, mailbox, idx, processed_count, mailHist>>
       ELSE LET m == unread_messages[r][idx[r]]
                sizes == attachments[m]
            IN  IF m \notin mailbox
                THEN /\ pc' = [pc EXCEPT ![r] = Finally]
                     /\ exit' = [exit EXCEPT ![r] = "exception"]
                     /\ UNCHANGED <<upload_logs, mailbox, idx, processed_count, mailHist>>
                ELSE IF BatchLimitReached(processed_count[r])
                THEN /\ pc' = [pc EXCEPT ![r] = Finally]
                     /\ exit' = [exit EXCEPT ![r] = "normal"]
                     /\ UNCHANGED <<upload_logs, mailbox, idx, processed_count, mailHist>>
                ELSE \E os \in OutcomeVectors(sizes), deleted \in BOOLEAN :
                       LET ok == process_single_message(os)
                           turns == Turns(os)
                       IN  /\ attOutcome' = [attOutcome EXCEPT ![r][m] =
                                  [a \in AttIdx |-> IF a \in turns THEN os[a] ELSE @[a]]]
                           /\ putAttempts' = [putAttempts EXCEPT ![r][m] =
                                  [a \in AttIdx |-> IF a \in turns
                                                    THEN @[a] + PutRequests(os[a])
                                                    ELSE @[a]]]
                           /\ putOk' = [putOk EXCEPT ![r][m] =
                                  [a \in AttIdx |-> IF a \in turns /\ os[a] = "uploaded"
                                                    THEN @[a] + 1 ELSE @[a]]]
                           /\ upload_logs' = [upload_logs EXCEPT ![r] =
                                  LogUpTo(@, m, sizes, os, Cardinality(turns))]
                           /\ IF ok /\ ~deleted
                              THEN /\ pc' = [pc EXCEPT ![r] = Finally]
                                   /\ exit' = [exit EXCEPT ![r] = "connerr"]
                                   /\ UNCHANGED <<mailbox, idx, processed_count>>
                                   /\ UNCHANGED <<failedIn, deletedBy>>
                              ELSE /\ mailbox' = MailboxAfter(mailbox, m, ok)
                                   /\ deletedBy' = [deletedBy EXCEPT ![r] =
                                          IF ok THEN @ \cup {m} ELSE @]
                                   /\ failedIn' = [failedIn EXCEPT ![r] =
                                          IF ok THEN @ ELSE @ \cup {m}]
                                   /\ processed_count' = [processed_count EXCEPT ![r] =
                                          IF ok THEN @ + 1 ELSE @]
                                   /\ idx' = [idx EXCEPT ![r] = @ + 1]
                                   /\ pc' = [pc EXCEPT ![r] = AfterMessage(ok)]
                                   /\ exit' = exit
    /\ UNCHANGED <<now, dbUp, app_locks, rowLock, attachments, maxEmailsPerRun>>
    /\ UNCHANGED <<result, unread_messages, lockHist>>
    /\ UNCHANGED msgVars

\* One call of process_emails, statement by statement.
process_emails(r) ==
    \/ AcquireConnect(r)
    \/ AcquireSelect(r)
    \/ AcquireDecide(r)
    \/ Scan(r)
    \/ LoopTurn(r)
    \/ ReleaseLock(r)

Next ==
    \/ \E r \in Runs : process_emails(r)
    \/ CleanupStaleLocks
    \/ Tick

Spec == Init /\ [][Next]_vars

\* Every call of process_emails is a request handled by a worker of its own:
\* it keeps running while it has a step to take, and a wait for the row's lock
\* ends when the transaction holding it ends.
Fairness == \A r \in Runs : WF_vars(process_emails(r))

FairSpec == Spec /\ Fairness

\* The table as an earlier release of the program can have left it: the lock
\* held, without a timestamp ("old lock without a timestamp", acquire_lock).
InitLegacy == InitFrom([exists |-> TRUE, is_locked |-> TRUE, locked_at |-> NULL])

SpecLegacy == InitLegacy /\ [][Next]_vars

\* get_db_connection: the database stops, or starts again, accepting
\* connections (connections already open go on).
StoreOutage ==
    /\ dbUp' = ~dbUp
    /\ UNCHANGED <<now, app_locks, rowLock, upload_logs, mailVars, runVars, histVars,
                   msgVars>>

NextOutage == Next \/ StoreOutage

\* The pipeline with a database that can be unreachable.
SpecOutage == Init /\ [][NextOutage]_vars

\* ------------------- _process_single_message, statement by statement

\* s.rfind(c), counted from 1; 0 when c is not in s.
RFind(s, c) ==
    IF \E i \in 1..Len(s) : s[i] = c
    THEN CHOOSE i \in 1..Len(s) : s[i] = c /\ \A j \in (i + 1)..Len(s) : s[j] # c
    ELSE 0

\* os.path.splitext: the extension starts at the last dot, unless that dot is
\* before the last '/' or has only dots between the '/' and itself.
splitext(p) ==
    LET sepIndex == RFind(p, Ord["/"])
        dotIndex == RFind(p, Ord["."])
    IN  IF /\ dotIndex > sepIndex
           /\ \E i \in (sepIndex + 1)..(dotIndex - 1) : p[i] # Ord["."]
        THEN <<SubSeq(p, 1, dotIndex - 1), From(p, dotIndex)>>
        ELSE <<p, << >> >>

RECURSIVE Decimal(_)
\* str(n) of a number that is not negative.
Decimal(n) ==
    IF n < 10 THEN <<Ord["0"] + n>> ELSE Decimal(n \div 10) \o <<Ord["0"] + (n % 10)>>

\* The loop of find_unique_filename with the candidate never changed.
NewFilenameSameName(original, k) == original

\* The counter put after the extension.
NewFilenameAfterExtension(original, k) ==
    original \o S(<<" ", "(">>) \o Decimal(k) \o S(<<")">>)

\* find_unique_filename: f"{name} ({counter}){extension}"
NewFilename(original, k) ==
    LET name == splitext(original)[1]
        extension == splitext(original)[2]
    IN  name \o S(<<" ", "(">>) \o Decimal(k) \o S(<<")">>) \o extension

\* find_unique_filename without its probes: every name taken as free.
FileNeverExists(filename, raised) == FALSE

\* A HEAD request that raised taken for a name that exists.
FileExistsOnError(filename, raised) == raised \/ filename \in webdav

\* webdav_file_exists: the HEAD request is answered 200; a request that raised
\* RequestException gives False. A server that answers 200 to every HEAD
\* (head = "always_200") has every name.
webdav_file_exists(filename, raised) ==
    IF raised THEN FALSE ELSE (head = "always_200" \/ filename \in webdav)

\* requests.head raises only when the connection to the server is unreliable.
HeadRaises == IF head = "unreliable" THEN BOOLEAN ELSE {FALSE}

\* original_filename = "unknown_attachment", before the try block.
UnknownAttachment ==
    S(<<"u", "n", "k", "n", "o", "w", "n", "_",
        "a", "t", "t", "a", "c", "h", "m", "e", "n", "t">>)

\* An entry of the history of calls.
Call(c, name, failed) == [att |-> index, call |-> c, name |-> name, failed |-> failed]

\* The end of one turn of the for loop, on an attachment that ended in o:
\* the flag, then break or the next attachment.
EndTurn(o) ==
    /\ all_attachments_succeeded' = FlagAfter(all_attachments_succeeded, o)
    /\ IF Breaks(o)
       THEN /\ at' = "return"
            /\ index' = index
       ELSE /\ at' = "for"
            /\ index' = index + 1

\* for index, attachment in enumerate(attachments): the next attachment, its
\* header decoded and the name sanitized; TypeError goes to the except clause.
\* Without attachments, and after the last one, the function returns.
NextAttachment ==
    /\ at = "for"
    /\ IF index > Len(message)
       THEN /\ at' = "return"
            /\ UNCHANGED <<index, original_filename, safe_filename, new_filename,
                           counter, all_attachments_succeeded, calls>>
       ELSE LET decoded == decode_email_header(message[index].filename)
            IN  /\ calls' = Append(calls,
                       Call("decode_email_header", decoded.value, decoded.raised))
                /\ IF decoded.raised
                   THEN /\ original_filename' = UnknownAttachment
                        /\ EndTurn("error")
                        /\ UNCHANGED <<safe_filename, new_filename, counter>>
                   ELSE /\ original_filename' = decoded.value
                        /\ safe_filename' = sanitize_filename(decoded.value)
                        /\ new_filename' = safe_filename'
                        /\ counter' = 0
                        /\ at' = "head"
                        /\ UNCHANGED <<index, all_attachments_succeeded>>
    /\ UNCHANGED <<webdav, head, message>>
    /\ UNCHANGED <<dbVars, mailVars, runVars, histVars>>

\* find_unique_filename, one HEAD request: the name probed is taken when the
\* server does not have it, and the next candidate is probed when it has. A
\* request that raised is in the history as "HEAD_error"; it fails nothing.
\* The loop is while True: the model follows it for MaxProbes candidates.
Probe ==
    /\ at = "head"
    /\ counter < MaxProbes
    /\ \E raised \in HeadRaises :
          /\ calls' = Append(calls, Call(IF raised THEN "HEAD_error" ELSE "HEAD",
                                         new_filename, FALSE))
          /\ IF webdav_file_exists(new_filename, raised)
             THEN /\ counter' = counter + 1
                  /\ new_filename' = NewFilename(safe_filename, counter + 1)
                  /\ at' = at
             ELSE /\ at' = "size"
                  /\ UNCHANGED <<counter, new_filename>>
    /\ UNCHANGED <<webdav, head, message, index, original_filename, safe_filename,
                   all_attachments_succeeded>>
    /\ UNCHANGED <<dbVars, mailVars, runVars, histVars>>

\* attachment.get('content') and its size (an exception there goes to the
\* except clause), then the size check: continue for an oversized attachment.
CheckSize ==
    /\ at = "size"
    /\ \E raised \in BOOLEAN :
          IF raised
          THEN /\ calls' = Append(calls, Call("content", new_filename, TRUE))
               /\ EndTurn("error")
          ELSE /\ calls' = calls
               /\ IF Oversized(message[index].size)
                  THEN EndTurn("skipped")
                  ELSE /\ at' = "put"
                       /\ UNCHANGED <<index, all_attachments_succeeded>>
    /\ UNCHANGED <<webdav, head, message, original_filename, safe_filename,
                   new_filename, counter>>
    /\ UNCHANGED <<dbVars, mailVars, runVars, histVars>>

\* upload_to_webdav: the PUT request, answered 2xx or not.
Upload ==
    /\ at = "put"
    /\ \E ok \in BOOLEAN :
          /\ calls' = Append(calls, Call("PUT", new_filename, ~ok))
          /\ webdav' = IF ok THEN webdav \cup {new_filename} ELSE webdav
          /\ EndTurn(IF ok THEN "uploaded" ELSE "upload_failed")
    /\ UNCHANGED <<head, message, original_filename, safe_filename, new_filename,
                   counter>>
    /\ UNCHANGED <<dbVars, mailVars, runVars, histVars>>

\* The pipeline while one call of _process_single_message is followed: a run
\* holds the lock and is in its loop, and nothing else moves.
PipelineIdle ==
    /\ now = 0
    /\ dbUp = TRUE
    /\ app_locks = LockedRow(0)
    /\ rowLock = NoRun
    /\ upload_logs = [r \in Runs |-> << >>]
    /\ mailbox = {}
    /\ attachments = [m \in Msgs |-> << >>]
    /\ maxEmailsPerRun = 1
    /\ pc = [r \in Runs |-> "done"]
    /\ result = [r \in Runs |-> NoRow]
    /\ unread_messages = [r \in Runs |-> << >>]
    /\ idx = [r \in Runs |-> 0]
    /\ processed_count = [r \in Runs |-> 0]
    /\ exit = [r \in Runs |-> "running"]
    /\ grants = 1
    /\ raced = {}
    /\ how = [r \in Runs |-> "no"]
    /\ attOutcome = [r \in Runs |-> [m \in Msgs |-> [a \in AttIdx |-> "none"]]]
    /\ failedIn = [r \in Runs |-> {}]
    /\ deletedBy = [r \in Runs |-> {}]
    /\ putAttempts = [r \in Runs |-> [m \in Msgs |-> [a \in AttIdx |-> 0]]]
    /\ putOk = [r \in Runs |-> [m \in Msgs |-> [a \in AttIdx |-> 0]]]

\* The call is at the head of its for loop, on the attachments given.
CallOn(atts) ==
    /\ head = "accurate"
    /\ message = atts
    /\ index = 1
    /\ at = "for"
    /\ original_filename = << >>
    /\ safe_filename = << >>
    /\ new_filename = << >>
    /\ counter = 0
    /\ all_attachments_succeeded = TRUE
    /\ calls = << >>

\* The attachments of the messages followed: a name or a header without a
\* str, a size at the ceiling or above it.
MessageHeaders == {Text(S(<<"a", ".", "b">>)), Unprintable}

MessageAttachments == [filename : MessageHeaders, size : AttachmentSizes]

\* The names the server can hold before the call.
MessageRemoteNames ==
    {S(<<"a", ".", "b">>), NewFilename(S(<<"a", ".", "b">>), 1)}

InitMessage ==
    /\ PipelineIdle
    /\ webdav \in SUBSET MessageRemoteNames
    /\ \E atts \in SeqsUpTo(MessageAttachments, MaxAtt) : CallOn(atts)

NextMessage == NextAttachment \/ Probe \/ CheckSize \/ Upload

\* One call of _process_single_message.
SpecMessage == InitMessage /\ [][NextMessage]_vars

\* The names given to find_unique_filename: what sanitize_filename returns.
ResolverNames ==
    {n \in Strs({"a", "b", "."}, MaxNameLen) : sanitize_filename(n) = n}

\* The call has decoded and sanitized the header of its one attachment and
\* enters find_unique_filename; the server holds any of the name and its
\* first candidates.
InitResolver ==
    /\ PipelineIdle
    /\ \E n \in ResolverNames :
          /\ webdav \in SUBSET ({n} \cup {NewFilename(n, k) : k \in 1..MaxTaken})
          /\ message = <<[filename |-> Text(n), size |-> MAX_ATTACHMENT_SIZE_MB]>>
          /\ original_filename = decode_email_header(Text(n)).value
          /\ safe_filename = sanitize_filename(original_filename)
          /\ new_filename = safe_filename
          /\ calls = <<[att |-> 1, call |-> "decode_email_header",
                        name |-> original_filename, failed |-> FALSE]>>
    /\ head = "accurate"
    /\ index = 1
    /\ at = "head"
    /\ counter = 0
    /\ all_attachments_succeeded = TRUE

NextResolver == Probe

\* One call of find_unique_filename.
SpecResolver == InitResolver /\ [][NextResolver]_vars

\* One call of find_unique_filename, each HEAD request sent in its turn.
FairSpecResolver == SpecResolver /\ WF_vars(Probe)

\* find_unique_filename against a server that answers 200 to every HEAD
\* request, whatever it holds.
InitAlwaysExists ==
    /\ PipelineIdle
    /\ \E n \in ResolverNames :
          /\ webdav \in SUBSET ({n} \cup {NewFilename(n, k) : k \in 1..MaxTaken})
          /\ message = <<[filename |-> Text(n), size |-> MAX_ATTACHMENT_SIZE_MB]>>
          /\ original_filename = decode_email_header(Text(n)).value
          /\ safe_filename = sanitize_filename(original_filename)
          /\ new_filename = safe_filename
          /\ calls = <<[att |-> 1, call |-> "decode_email_header",
                        name |-> original_filename, failed |-> FALSE]>>
    /\ head = "always_200"
    /\ index = 1
    /\ at = "head"
    /\ counter = 0
    /\ all_attachments_succeeded = TRUE

FairSpecAlwaysExists == InitAlwaysExists /\ [][NextResolver]_vars /\ WF_vars(Probe)

\* One call of _process_single_message over a connection on which a HEAD
\* request can raise RequestException.
InitUnreliable ==
    /\ PipelineIdle
    /\ webdav \in SUBSET MessageRemoteNames
    /\ \E atts \in SeqsUpTo(MessageAttachments, MaxAtt) :
          /\ message = atts
          /\ index = 1
          /\ at = "for"
          /\ original_filename = << >>
          /\ safe_filename = << >>
          /\ new_filename = << >>
          /\ counter = 0
          /\ all_attachments_succeeded = TRUE
          /\ calls = << >>
    /\ head = "unreliable"

SpecUnreliable == InitUnreliable /\ [][NextMessage]_vars

\* Headers without encoding: the characters sanitize_filename acts on, and a
\* letter.
PlainHeaders ==
    {Text(s) : s \in Strs({"a", ".", "<", ">", ":", "\"", "/", "\\", "|", "?", "*"},
                          MaxPlainLen)}

\* The charsets named in the RFC 2231 values.
Utf8Name == S(<<"u", "t", "f", "-", "8">>)
Latin1Name == S(<<"i", "s", "o", "-", "8", "8", "5", "9", "-", "1">>)

\* bytes.decode(charset), for bytes that are text in the charset.
DecodeIn(charset, bytes) == IF charset = Latin1Name THEN Latin1(bytes) ELSE Utf8Replace(bytes)

RECURSIVE Concat(_)
\* ''.join(parts)
Concat(parts) == IF parts = << >> THEN << >> ELSE Head(parts) \o Concat(Tail(parts))

\* The pieces of a percent-encoded value: a letter, and the escapes of the
\* bytes C3, A9 and E9 (C3 A9 is e-acute in UTF-8, E9 in ISO-8859-1).
EncodedPieces ==
    {S(<<"a">>), S(<<"%", "C", "3">>), S(<<"%", "A", "9">>), S(<<"%", "E", "9">>)}

\* charset'lang'encoded
Rfc2231(charset, lang, encoded) ==
    charset \o S(<<"'">>) \o lang \o S(<<"'">>) \o encoded

\* The valid RFC 2231 values: the bytes of the encoded part are text in the
\* charset named; the language is empty or 'en'.
Rfc2231Parts ==
    {p \in [charset : {Utf8Name, Latin1Name},
            lang : {<< >>, S(<<"e", "n">>)},
            encoded : {Concat(ps) : ps \in SeqsUpTo(EncodedPieces, MaxEncodedLen)}] :
        ReplacementChar \notin
            {DecodeIn(p.charset, unquote_to_bytes(p.encoded))[i] :
                i \in 1..Len(DecodeIn(p.charset, unquote_to_bytes(p.encoded)))}}

Rfc2231Headers == {Text(Rfc2231(p.charset, p.lang, p.encoded)) : p \in Rfc2231Parts}

\* =?utf-8?Q?text?=, an RFC 2047 encoded word in the Q encoding, where every
\* printable character but '=', '?' and '_' stands for itself.
EncodedWord(text) ==
    S(<<"=", "?", "u", "t", "f", "-", "8", "?", "Q", "?">>) \o text \o S(<<"?", "=">>)

Rfc2047Headers == {Text(EncodedWord(t)) : t \in Strs({"a", "%", "2", "5"}, MaxWordLen)}

DecoderHeaders == PlainHeaders \cup Rfc2231Headers \cup Rfc2047Headers \cup {Unprintable}

\* The call is entered with one attachment, whose header is any of the above.
InitDecoder ==
    /\ PipelineIdle
    /\ webdav = {}
    /\ \E h \in DecoderHeaders :
          CallOn(<<[filename |-> h, size |-> MAX_ATTACHMENT_SIZE_MB]>>)

NextDecoder == NextAttachment

\* decode_email_header and sanitize_filename, on the header of one attachment.
SpecDecoder == InitDecoder /\ [][NextDecoder]_vars

\* ---------------------------------------------------------------- claims

\* The run is between the True of acquire_lock and its release_lock: it is
\* about to read the mailbox, or in its loop over the messages.
Working(r) == pc[r] \in {"scan", "loop"}

\* The attachments of message m.
AttsOf(m) == 1..Len(attachments[m])

\* Attachment a of m ended, in run r, in a failed upload or an exception.
FailedAtt(r, m, a) == attOutcome[r][m][a] \in {"upload_failed", "error"}

\* The rows of upload_logs that run r inserted for message m.
RowsOf(r, m) == SelectSeq(upload_logs[r], LAMBDA e : e.msg = m)

\* The rows of upload_logs that run r inserted for attachment a of m.
RowsOfAtt(r, m, a) == SelectSeq(upload_logs[r], LAMBDA e : e.msg = m /\ e.att = a)

\* The status column of a sequence of rows.
Statuses(rows) == [i \in 1..Len(rows) |-> rows[i].status]

\* C1: between two unlockings of the row (by release_lock, by
\* cleanup_stale_locks, or by the forced release of a lock that timed out or has no
\* timestamp) at most one acquire_lock call returns True, however the calls
\* interleave.
C1_AcquireMutuallyExclusive == grants <= 1

\* C1, the case: one call has returned True; a call that overlapped it has read
\* the row it locked and returns False; the row has not been unlocked in between.
C1_Witness ==
    \E r \in raced : \E q \in Runs :
        /\ Working(q) /\ grants = 1
        /\ pc[r] = "acquire_decide" /\ StillLocked(result[r], now)

\* C2: at most one run at a time is between its successful acquire_lock and its
\* release_lock, start-up sweeps and reclaims of timed-out locks included.
C2_OneRunWorking == Cardinality({r \in Runs : Working(r)}) <= 1

\* C3: a run deletes a message only if none of the message's attachments ended,
\* in that run, in a failed upload or an exception.
C3_DeleteOnlyWithoutFailure ==
    \A r \in Runs : \A m \in deletedBy[r] : \A a \in AttsOf(m) : ~FailedAtt(r, m, a)

\* C3, the case: one run has deleted a message with an uploaded attachment and
\* left in the mailbox a message one of whose attachments failed.
C3_Witness ==
    \E r \in Runs : \E m1, m2 \in Msgs :
        /\ m1 \in deletedBy[r] /\ putOk[r][m1][1] = 1
        /\ m2 \in mailbox /\ \E a \in AttsOf(m2) : FailedAtt(r, m2, a)

\* C4: when the first of two attachments of a message is uploaded and the upload
\* of the second fails, the run does not delete the message and inserts exactly
\* two rows for it, Success then Failed.
C4_SecondUploadFails ==
    \A r \in Runs : \A m \in Msgs :
        (/\ Len(attachments[m]) = 2
         /\ attOutcome[r][m][1] = "uploaded"
         /\ attOutcome[r][m][2] = "upload_failed")
        => /\ m \notin deletedBy[r]
           /\ Statuses(RowsOf(r, m)) = <<"Success", "Failed">>
           /\ RowsOf(r, m)[1].att = 1 /\ RowsOf(r, m)[2].att = 2

\* C4, the case: such a message, with the run that handled it over.
C4_Witness ==
    \E r \in Runs : \E m \in mailbox :
        /\ pc[r] = "done"
        /\ attOutcome[r][m][1] = "uploaded"
        /\ attOutcome[r][m][2] = "upload_failed"

\* Run r holds the lock: acquire_lock returned True and release_lock has not run.
Holding(r) == pc[r] \in {"scan", "loop", "release_lock"}

C6_RetriesBeforeFailed ==
    \A r \in Runs : \A m \in Msgs : \A a \in AttsOf(m) :
        attOutcome[r][m][a] = "upload_failed"
        => putAttempts[r][m][a] = UPLOAD_RETRY_COUNT + 1

\* C7: an attachment handed to upload_to_webdav gets exactly one row of
\* upload_logs, with its name, its size and its final status; an attachment not
\* handed to it gets none.
C7_OneRowPerUpload ==
    \A r \in Runs : \A m \in Msgs : \A a \in AttsOf(m) :
        LET rows == RowsOfAtt(r, m, a)
        IN  IF attOutcome[r][m][a] \in {"uploaded", "upload_failed"}
            THEN /\ Len(rows) = 1
                 /\ rows[1].size_bytes = attachments[m][a]
                 /\ rows[1].status = IF putOk[r][m][a] = 1 THEN "Success" ELSE "Failed"
            ELSE Len(rows) = 0

\* C7, the case: a run has handed over an attachment that was uploaded and one
\* whose upload failed.
C7_Witness ==
    \E r \in Runs : \E m1, m2 \in Msgs : \E a1 \in AttsOf(m1), a2 \in AttsOf(m2) :
        /\ attOutcome[r][m1][a1] = "uploaded"
        /\ attOutcome[r][m2][a2] = "upload_failed"
        /\ Len(upload_logs[r]) = 2

RECURSIVE WritesUpTo(_, _, _)
\* The successful PUTs of attachment a of m by runs 1..r.
WritesUpTo(r, m, a) == IF r = 0 THEN 0 ELSE putOk[r][m][a] + WritesUpTo(r - 1, m, a)

\* The successful PUTs of attachment a of m by all runs.
Writes(m, a) == WritesUpTo(NumRuns, m, a)

NoFailureIn(r) == \A m \in Msgs : \A a \in AttIdx : ~FailedAtt(r, m, a)

\* The first n uids of the search of run r.
FirstFound(r, n) == {unread_messages[r][i] : i \in 1..n}

\* C9: a run that found N messages, processed without failure and ended
\* normally has deleted the first min(N, limit) of them, and has not touched the
\* other N - min(N, limit).
C9_BatchLimit ==
    \A r \in Runs :
        (exit[r] = "normal" /\ NoFailureIn(r))
        => LET N == Len(unread_messages[r])
               k == Min(N, maxEmailsPerRun)
           IN  /\ Cardinality(deletedBy[r]) = k
               /\ deletedBy[r] = FirstFound(r, k)
               /\ \A m \in FirstFound(r, N) \ FirstFound(r, k) :
                     \A a \in AttIdx : attOutcome[r][m][a] = "none"

\* C9, the case: a run found more messages than the limit, deleted as many as
\* the limit and left the rest in the mailbox.
C9_Witness ==
    \E r \in Runs :
        /\ pc[r] = "done" /\ exit[r] = "normal" /\ NoFailureIn(r)
        /\ Len(unread_messages[r]) > maxEmailsPerRun
        /\ Cardinality(deletedBy[r]) = maxEmailsPerRun
        /\ FirstFound(r, Len(unread_messages[r])) \ deletedBy[r] \subseteq mailbox
        /\ FirstFound(r, Len(unread_messages[r])) \ deletedBy[r] # {}

\* The row is locked and its lock has timed out or has no timestamp.
Reclaimable ==
    /\ app_locks.is_locked
    /\ app_locks.locked_at = NULL \/ now - app_locks.locked_at > timeout_minutes

\* C10: an acquire_lock call that finds the lock held, and timed out or without
\* a timestamp, returns True and leaves the row locked with locked_at at the
\* current time.
C10_StaleLockReclaimed ==
    [][\A r \in Runs :
         (pc[r] = "acquire_decide" /\ pc'[r] # "acquire_decide" /\ Reclaimable)
         => (pc'[r] = "scan" /\ app_locks' = LockedRow(now))]_vars

\* C10, the case: one call took over a lock without a timestamp, a later one a
\* lock that had timed out, and the row is locked at the current time.
C10_Witness ==
    \E r1, r2 \in Runs :
        /\ how[r1] = "no_timestamp" /\ how[r2] = "timed_out"
        /\ pc[r2] = "scan"
        /\ app_locks = LockedRow(now)

\* The entries of the history of calls.
CallIdx == 1..Len(calls)

\* The HEAD and PUT requests sent for attachment a.
RequestsFor(a) ==
    {i \in CallIdx : calls[i].att = a /\ calls[i].call \in {"HEAD", "HEAD_error", "PUT"}}

\* C11: for an attachment above the size ceiling no request is sent to the
\* remote store, neither a HEAD for its name nor a PUT.
C11_NoRequestForOversized ==
    \A a \in 1..Len(message) : Oversized(message[a].size) => RequestsFor(a) = {}

\* C17: a header that cannot be decoded does not fail the message: when
\* nothing else failed the call returns True, and the attachment, unless it is
\* above the size ceiling, has been sent with a PUT.
C17_UndecodableHeaderTolerated ==
    (/\ at = "return"
     /\ \A i \in CallIdx : calls[i].failed => calls[i].call = "decode_email_header")
    => /\ all_attachments_succeeded
       /\ \A a \in 1..Len(message) :
             (~message[a].filename.printable /\ ~Oversized(message[a].size))
             => \E i \in RequestsFor(a) : calls[i].call = "PUT"

\* C20: a failed upload or an exception is the last thing the call does for the
\* message: no header is decoded and no HEAD or PUT is sent after it, for the
\* attachment or for a later one, and the call has returned False.
C20_NothingAfterFailure ==
    \A i \in CallIdx :
        calls[i].failed
        => /\ i = Len(calls)
           /\ at = "return"
           /\ ~all_attachments_succeeded

\* C20, the case: the upload of the first of two attachments failed, and the
\* call has returned.
C20_Witness ==
    /\ Len(message) = 2
    /\ at = "return"
    /\ \E i \in CallIdx : calls[i].att = 1 /\ calls[i].call = "PUT" /\ calls[i].failed

\* Run r has not touched the mailbox or the remote store.
Untouched(r) ==
    /\ unread_messages[r] = << >> /\ idx[r] = 0 /\ processed_count[r] = 0
    /\ deletedBy[r] = {} /\ failedIn[r] = {} /\ upload_logs[r] = << >>
    /\ \A m \in Msgs : \A a \in AttIdx :
          attOutcome[r][m][a] = "none" /\ putAttempts[r][m][a] = 0

\* The acquire_lock call of run r is about to return False: it gets no
\* connection, or it has read a row that is locked and not stale.
Refused(r) ==
    \/ pc[r] = "acquire_lock" /\ ~dbUp
    \/ pc[r] = "acquire_decide" /\ StillLocked(result[r], now)

\* C12: a run whose acquire_lock returns False, the lock being held or the
\* database unreachable, is over at once, without an exception, and never
\* connects to the mailbox, uploads or deletes; the mailbox is as it was.
C12_SkippedRunDoesNothing ==
    /\ [][\A r \in Runs :
            (Refused(r) /\ pc'[r] # pc[r])
            => /\ pc'[r] = "done" /\ exit'[r] = "skipped"
               /\ mailbox' = mailbox]_vars
    /\ [](\A r \in Runs : exit[r] = "skipped" => pc[r] = "done" /\ Untouched(r))

\* C12, the case: a run was refused for want of a connection and is over,
\* while the other run holds the lock and works on a mailbox with messages.
C12_Witness ==
    \E r, q \in Runs :
        /\ pc[r] = "done" /\ exit[r] = "skipped" /\ how[r] = "unreachable"
        /\ Working(q) /\ mailbox # {}

\* C18: an attachment above the size ceiling does not fail its message: the
\* loop goes on to the next attachment, and when every other attachment was
\* uploaded the message is complete and the run deletes it (unless the
\* connection to the mailbox is lost at the delete, which ends the run).
C18_OversizedDoesNotFail ==
    \A r \in Runs : \A m \in Msgs :
        /\ \A a \in AttsOf(m) :
              (attOutcome[r][m][a] = "skipped" /\ a < Len(attachments[m]))
              => attOutcome[r][m][a + 1] # "none"
        /\ (/\ \E a \in AttsOf(m) : attOutcome[r][m][a] = "skipped"
            /\ \A a \in AttsOf(m) : attOutcome[r][m][a] \in {"skipped", "uploaded"})
           => (m \in deletedBy[r] \/ exit[r] = "connerr")

\* C18, the case: the first attachment of a message was skipped for its size,
\* the second was uploaded, and the run deleted the message.
C18_Witness ==
    \E r \in Runs : \E m \in Msgs :
        /\ attOutcome[r][m][1] = "skipped"
        /\ attOutcome[r][m][2] = "uploaded"
        /\ m \in deletedBy[r]

\* C19: an acquire_lock call that finds the lock held, with a timestamp whose
\* age is at most the timeout (exactly the timeout included), returns False
\* and leaves is_locked and locked_at of the row as they were.
C19_FreshLockRefused ==
    [][\A r \in Runs :
         (/\ pc[r] = "acquire_decide" /\ pc'[r] # pc[r]
          /\ app_locks.is_locked /\ app_locks.locked_at # NULL
          /\ now - app_locks.locked_at <= timeout_minutes)
         => /\ pc'[r] = "done" /\ exit'[r] = "skipped"
            /\ app_locks' = app_locks]_vars

\* C19, the case: a call found the lock held for exactly the timeout, was
\* refused, and the row is still locked with the timestamp it had.
C19_Witness ==
    \E r \in Runs :
        /\ pc[r] = "done" /\ how[r] = "held_at_timeout"
        /\ app_locks.is_locked /\ now - app_locks.locked_at = timeout_minutes

\* `stem (k).ext` of a name, stem and extension as os.path.splitext gives them.
StemKExt(n, k) ==
    splitext(n)[1] \o S(<<" ", "(">>) \o Decimal(k) \o S(<<")">>) \o splitext(n)[2]

\* C13: find_unique_filename returns the name itself when the server does not
\* have it, and otherwise `stem (k).ext` for the smallest k >= 1 that the
\* server does not have.
C13_FirstFreeName ==
    at = "size"
    => IF safe_filename \notin webdav
       THEN new_filename = safe_filename
       ELSE \E k \in 1..(MaxTaken + 1) :
               /\ new_filename = StemKExt(safe_filename, k)
               /\ new_filename \notin webdav
               /\ \A j \in 1..(k - 1) : StemKExt(safe_filename, j) \in webdav

\* C13, the case: a name with an extension was taken, and so were its first
\* two candidates; the third is returned.
C13_Witness ==
    /\ at = "size"
    /\ splitext(safe_filename)[2] # << >>
    /\ new_filename = StemKExt(safe_filename, 3)
    /\ {safe_filename, StemKExt(safe_filename, 1), StemKExt(safe_filename, 2)}
          \subseteq webdav

\* The characters that no sanitized name may hold: < > : " / \ | ? *
ForbiddenChars == {60, 62, 58, 34, 47, 92, 124, 63, 42}

\* C14: the sanitized name holds none of the characters < > : " / \ | ? * and
\* no two dots in a row.
C14_SanitizedNameClean ==
    at = "head"
    => /\ \A i \in 1..Len(safe_filename) : safe_filename[i] \notin ForbiddenChars
       /\ \A i \in 1..(Len(safe_filename) - 1) :
             ~(safe_filename[i] = 46 /\ safe_filename[i + 1] = 46)

\* C14, the case: a name of four characters that held three dots in a row and
\* a forbidden character has been sanitized.
C14_Witness ==
    /\ at = "head"
    /\ Len(original_filename) = 4
    /\ \E i \in 1..2 : \A j \in i..(i + 2) : original_filename[j] = 46
    /\ \E i \in 1..4 : original_filename[i] \in ForbiddenChars
    /\ Len(safe_filename) = 2

\* C15: for a valid RFC 2231 value charset'lang'encoded the decoder returns the
\* encoded part, percent-decoded to bytes and the bytes decoded in the charset.
C15_Rfc2231Decoded ==
    \A p \in Rfc2231Parts :
        (at = "head" /\ message[1].filename = Text(Rfc2231(p.charset, p.lang, p.encoded)))
        => original_filename = DecodeIn(p.charset, unquote_to_bytes(p.encoded))

\* C16: decoding the decoded text of an RFC 2047 encoded word again gives the
\* same text.
C16_DecodeIdempotent ==
    (at = "head" /\ message[1].filename \in Rfc2047Headers)
    => decode_email_header(Text(original_filename)).value = original_filename

\* Run r is over, or about to release the lock, and nothing cut it short: no
\* refused lock, no invalid configuration, no lost connection, no exception
\* outside the handling of a message, and messages were found.
RanToEnd(r) ==
    /\ pc[r] \in {"release_lock", "done"}
    /\ exit[r] \notin {"skipped", "invalid", "connerr", "exception", "empty"}

\* C21: a message that fails does not end the run: in a run that nothing else
\* cut short, every message found was processed (deleted, or failed and left)
\* unless the batch limit had been reached before its turn.
C21_FailureDoesNotAbort ==
    \A r \in Runs :
        RanToEnd(r)
        => \A i \in 1..Len(unread_messages[r]) :
              \/ unread_messages[r][i] \in deletedBy[r] \cup failedIn[r]
              \/ Cardinality(deletedBy[r] \cap FirstFound(r, i - 1)) >= maxEmailsPerRun

\* C21, the case: the first message of a run failed, the second was processed
\* and deleted, and the run ended normally.
C21_Witness ==
    \E r \in Runs :
        /\ pc[r] = "done" /\ exit[r] = "normal"
        /\ Len(unread_messages[r]) = 2
        /\ unread_messages[r][1] \in failedIn[r]
        /\ unread_messages[r][2] \in deletedBy[r]

\* The uids that the search of run r returned.
Found(r) == {unread_messages[r][i] : i \in 1..Len(unread_messages[r])}

Traces(r) ==
    <<unread_messages[r], idx[r], processed_count[r], upload_logs[r], attOutcome[r],
      putAttempts[r], putOk[r], deletedBy[r], failedIn[r]>>

\* A step of run r that connects to the mailbox, searches it, deletes from it,
\* or sends a request to the remote store.
Touches(r) ==
    \/ Traces(r)' # Traces(r)
    \/ mailbox' # mailbox /\ deletedBy'[r] # deletedBy[r]
    \/ pc[r] = "scan" /\ pc'[r] # "scan"

\* The acquire_lock call of run r returned True, and its release_lock has not
\* been called.
Acquired(r) == how[r] \in {"free", "no_timestamp", "timed_out"}

\* C23: every request of a run to the mailbox or to the remote store comes
\* after its acquire_lock returned True and before its release_lock is called.
C23_RequestsUnderLock ==
    [][\A r \in Runs : Touches(r) => Acquired(r) /\ Working(r)]_vars

\* C23, the case: a run that deleted a message has released the lock and is
\* over, with the row unlocked.
C23_Witness ==
    \E r \in Runs :
        /\ pc[r] = "done" /\ exit[r] = "normal" /\ how[r] = "no"
        /\ deletedBy[r] # {} /\ upload_logs[r] # << >>
        /\ ~app_locks.is_locked

\* C24 as claimed: the messages that a run started to process, deleted or
\* failed, are never more than the batch limit.
C24_StartedWithinLimit ==
    \A r \in Runs : Cardinality(deletedBy[r] \cup failedIn[r]) <= maxEmailsPerRun

\* C24 as amended: the messages that a run processed with success and deleted
\* are never more than the batch limit, and processed_count counts exactly
\* those; the messages that failed are not counted.
C24_DeletedWithinLimit ==
    \A r \in Runs :
        /\ processed_count[r] = Cardinality(deletedBy[r])
        /\ Cardinality(deletedBy[r]) <= maxEmailsPerRun

\* C24, the case: with a batch limit of one, a run has started two messages:
\* one failed, the other was deleted.
C24_Witness ==
    \E r \in Runs :
        /\ maxEmailsPerRun = 1
        /\ Cardinality(failedIn[r]) = 1
        /\ Cardinality(deletedBy[r]) = 1
        /\ processed_count[r] = 1

\* C25: in every state of the lock row that acquire_lock (with its reclaim of a
\* stale lock), release_lock and the start-up sweep can produce from a new
\* table, locked_at is NULL exactly when is_locked is FALSE.
C25_TimestampIffLocked ==
    (app_locks.locked_at = NULL) <=> ~app_locks.is_locked

\* C25, the case: a run holds the lock that it reclaimed from a run that had
\* held it for longer than the timeout, and the row carries the time of the
\* reclaim.
C25_Witness ==
    \E r \in Runs :
        /\ how[r] = "timed_out"
        /\ Working(r)
        /\ app_locks.is_locked
        /\ app_locks.locked_at = now

\* C26: against a server that holds a finite set of names and answers every
\* HEAD request by what it holds, find_unique_filename returns: it has sent at
\* most one request more than the server holds names, and the name that it
\* returns is not on the server.
C26_ResolverTerminates ==
    /\ <>(at = "size")
    /\ [](counter <= Cardinality(webdav))
    /\ [](at = "size" => new_filename \notin webdav)

\* C26, the case: a name without an extension was taken and its first
\* candidate was not; the resolver has returned after two requests.
C26_Witness ==
    /\ at = "size"
    /\ head = "accurate"
    /\ splitext(safe_filename)[2] = << >>
    /\ safe_filename \in webdav
    /\ counter = 1
    /\ Len(calls) = 3
    /\ new_filename \notin webdav

\* C27: against a server that answers "exists" to every HEAD request,
\* find_unique_filename ends after a bounded number of requests: when
\* MaxProbes candidates have been probed and found taken, it has left its
\* loop (with an error raised, as no candidate was free).
C27_ProbingEnds ==
    (head = "always_200" /\ counter = MaxProbes) => at # "head"

\* The HEAD requests in the history of calls that raised.
HeadErrors == {i \in CallIdx : calls[i].call = "HEAD_error"}

\* C28: a HEAD request that raised a network error counts as "the name does
\* not exist". It is the last request of its resolution: the name that was
\* probed is the name returned, whether the server holds it or not, and what
\* follows for that attachment is the reading of its content and, unless it is
\* above the size ceiling, the PUT to that name.
C28_FailedProbeMeansFree ==
    \A i \in HeadErrors :
        /\ \A j \in (i + 1)..Len(calls) :
              calls[j].att = calls[i].att
              => calls[j].call \in {"content", "PUT"} /\ calls[j].name = calls[i].name
        /\ (i = Len(calls) /\ at \notin {"for", "return"})
              => /\ at \in {"size", "put"}
                 /\ new_filename = calls[i].name
        /\ (/\ at \in {"for", "return"}
            /\ \A j \in (i + 1)..Len(calls) : calls[j].att # calls[i].att)
              => Oversized(message[calls[i].att].size)

\* C28, the case: the server holds the name, the HEAD request for it raised,
\* and the call is about to send the PUT to that name.
C28_Witness ==
    /\ head = "unreliable"
    /\ at = "put"
    /\ calls[Len(calls)].call = "HEAD_error"
    /\ new_filename = calls[Len(calls)].name
    /\ new_filename = safe_filename
    /\ new_filename \in webdav

\* C29: for a header that is not empty, the decoder never returns an empty
\* name: when the text after the last '' percent-decodes to nothing, it
\* returns the text of the header as it was.
C29_NeverEmptyName ==
    (/\ at = "head"
     /\ message[1].filename.printable
     /\ message[1].filename.text # << >>)
    => /\ original_filename # << >>
       /\ unquote(SplitLast(message[1].filename.text, S(<<"'", "'">>), << >>)) = << >>
              => original_filename = message[1].filename.text

\* C30 as claimed: when a run has deleted a message, it has uploaded every
\* attachment of it with success.
C30_DeletedMeansAllUploaded ==
    \A r \in Runs : \A m \in deletedBy[r] : \A a \in AttsOf(m) :
        putOk[r][m][a] >= 1

\* C30 as amended: when a run has deleted a message, every attachment of it
\* was either uploaded with success by that run or is above the size ceiling
\* and was skipped without a PUT; no attachment of it met a failed upload or
\* an exception, and none was left unhandled.
C30_DeletedMeansUploadedOrOversized ==
    \A r \in Runs : \A m \in deletedBy[r] : \A a \in AttsOf(m) :
        \/ /\ attOutcome[r][m][a] = "uploaded"
           /\ putOk[r][m][a] = 1
           /\ attachments[m][a] <= MAX_ATTACHMENT_SIZE_MB
        \/ /\ attOutcome[r][m][a] = "skipped"
           /\ putAttempts[r][m][a] = 0
           /\ attachments[m][a] > MAX_ATTACHMENT_SIZE_MB

\* C30, the case: a run deleted a message whose only attachment is above the
\* size ceiling; nothing of the message is in the remote store.
C30_Witness ==
    \E r \in Runs : \E m \in deletedBy[r] :
        /\ Len(attachments[m]) = 1
        /\ attOutcome[r][m][1] = "skipped"
        /\ putAttempts[r][m][1] = 0
        /\ m \notin mailbox

\* The lock that run r took from the unlocked row has been reclaimed as timed
\* out by run q, which is working under it: the row is locked, and the lock
\* in it is the one of q (each run is one call of process_emails, so the lock
\* that q reclaimed was the one of r, and no call took the lock after q).
ReclaimedFrom(r, q) ==
    /\ q # r
    /\ how[r] = "free"
    /\ how[q] = "timed_out" /\ Working(q)
    /\ app_locks.is_locked

\* C31: the release_lock of a run does not unlock the lock of another run:
\* when the lock of run r was reclaimed as timed out by run q while r was
\* working, and q is working, the release_lock of r leaves the row locked,
\* with the timestamp that q gave it.
C31_ReleaseKeepsOthersLock ==
    [][\A r \in Runs :
         (/\ pc[r] = "release_lock" /\ pc'[r] = "done"
          /\ \E q \in Runs : ReclaimedFrom(r, q))
         => app_locks' = app_locks]_vars

\* C32: a run whose acquire_lock returned False does not call release_lock:
\* it goes from the refusal to its end in one step, which leaves the row of
\* the lock as it was, and it is never at release_lock afterwards.
C32_RefusedRunNeverReleases ==
    /\ [][\A r \in Runs :
            (Refused(r) /\ pc'[r] # pc[r])
            => /\ pc'[r] # "release_lock"
               /\ app_locks' = app_locks]_vars
    /\ [](\A r \in Runs :
            how[r] \in {"held", "held_at_timeout", "unreachable"} => pc[r] = "done")

\* C32, the case: a run was refused because the other run holds the lock; it
\* is over, and the other run is working with the row still locked.
C32_Witness ==
    \E r, q \in Runs :
        /\ pc[r] = "done" /\ how[r] = "held"
        /\ Working(q) /\ Acquired(q)
        /\ app_locks.is_locked

\* The PUT requests in the history of calls.
Puts == {i \in CallIdx : calls[i].call = "PUT"}

\* C33: with HEAD requests answered by what the server holds, no PUT of a call
\* goes to a path that the server holds when the request is sent, and no two
\* PUT requests of the call go to the same path, whatever the server held
\* before the call (from earlier messages of the run or from before the run).
C33_NoWriteToExistingPath ==
    /\ [][(at = "put" /\ at' # "put") => new_filename \notin webdav]_vars
    /\ [](\A i, j \in Puts : i # j => calls[i].name # calls[j].name)

\* C33, the case: the server held the name, the two attachments of the
\* message both carried it, and both were uploaded, to two candidates.
C33_Witness ==
    /\ at = "return"
    /\ all_attachments_succeeded
    /\ Len(message) = 2
    /\ message[1].filename = message[2].filename
    /\ \E i, j \in Puts :
          /\ calls[i].att = 1 /\ calls[j].att = 2
          /\ calls[i].name # calls[j].name
          /\ calls[i].name = StemKExt(S(<<"a", ".", "b">>), 1)
          /\ {S(<<"a", ".", "b">>), calls[i].name, calls[j].name} \subseteq webdav

\* Run r is about to process message m: the loop is at m, m is in the mailbox
\* and the batch limit is not reached.
AboutToProcess(r, m) ==
    /\ pc[r] = "loop"
    /\ idx[r] <= Len(unread_messages[r])
    /\ unread_messages[r][idx[r]] = m
    /\ m \in mailbox
    /\ processed_count[r] < maxEmailsPerRun

\* C34: a message without attachments is processed with success: the turn of
\* the loop on it sends no PUT and writes no row of upload_logs, deletes the
\* message from the mailbox and adds one to processed_count, so that it counts
\* toward the batch limit (unless the connection to the mailbox is lost at the
\* delete, which ends the run with the message in place). It is never a
\* failed message.
C34_NoAttachmentsIsSuccess ==
    /\ [][\A r \in Runs : \A m \in Msgs :
            (/\ AboutToProcess(r, m)
             /\ attachments[m] = << >>
             /\ (pc'[r] # pc[r] \/ idx'[r] # idx[r]))
            => /\ upload_logs' = upload_logs
               /\ putAttempts' = putAttempts
               /\ IF exit'[r] = "connerr"
                  THEN mailbox' = mailbox /\ processed_count' = processed_count
                  ELSE /\ mailbox' = mailbox \ {m}
                       /\ m \in deletedBy'[r]
                       /\ processed_count'[r] = processed_count[r] + 1
                       /\ pc'[r] = "loop"]_vars
    /\ [](\A r \in Runs : \A m \in failedIn[r] : attachments[m] # << >>)

\* C34, the case: with a batch limit of one, a run found two messages, the
\* first without attachments: it deleted the first without a row in
\* upload_logs, and ended at the limit with the second not handled.
C34_Witness ==
    \E r \in Runs :
        /\ maxEmailsPerRun = 1
        /\ pc[r] = "done" /\ exit[r] = "normal"
        /\ Len(unread_messages[r]) = 2
        /\ attachments[unread_messages[r][1]] = << >>
        /\ deletedBy[r] = {unread_messages[r][1]}
        /\ processed_count[r] = 1
        /\ upload_logs[r] = << >>
        /\ unread_messages[r][2] \in mailbox
        /\ attachments[unread_messages[r][2]] # << >>
====
